---- MODULE Spec2Model ----
(***************************************************************************)
(* mapwatcher (src/src/main.rs): the smaps record parser                   *)
(* (Map::parse_from_line_iterator, Maps::get_maps) and the sorted-merge    *)
(* differ (Maps::print_diff).                                              *)
(*                                                                         *)
(* A Rust string is modelled as a sequence of one-character strings, so    *)
(* that splitting, prefix tests and digit decoding are computed and not    *)
(* assumed.  The only whitespace character of the modelled alphabet is the *)
(* space; decoded numbers stay far below 2^31, so the u64 overflow error   *)
(* of the integer parsers and the `as u32` truncation of the device        *)
(* numbers are outside the inputs explored.                                *)
(***************************************************************************)
EXTENDS Integers, Sequences, FiniteSets, TLC

VARIABLES
    \* Maps::get_maps and Map::parse_from_line_iterator
    lines,          \* the lines yielded by file.lines(), in order
    pos,            \* how many of them the iterator has yielded so far
    entry,          \* pos when parse_from_line_iterator was last called
    first_line,     \* local first_line of the running / last call
    further_lines,  \* local further_lines of the running / last call
    maps,           \* res.maps of get_maps
    m,              \* local m of get_maps: what the last call returned
    ret,            \* what get_maps returned, once it has
    pc,             \* where get_maps / parse_from_line_iterator stands
    \* Maps::print_diff
    cur,            \* self.maps
    prev,           \* prev.maps
    curPid,         \* self.pid
    prevPid,        \* prev.pid
    i,              \* position in self.maps
    j,              \* position in prev.maps
    out,            \* the lines printed so far, one entry per println!
    dpc             \* where print_diff stands

parseVars == <<lines, pos, entry, first_line, further_lines, maps, m, ret, pc>>
diffVars == <<cur, prev, curPid, prevPid, i, j, out, dpc>>
vars == <<lines, pos, entry, first_line, further_lines, maps, m, ret, pc,
          cur, prev, curPid, prevPid, i, j, out, dpc>>

----------------------------------------------------------------------------
(* Bounds of the exploration.                                              *)

\* at most this many blocks in an input text
MaxBlocks == 2
\* at most this many lines cut off the end of an input text
MaxCut == 2
\* start addresses of the snapshots handed to print_diff are 1..MaxStart
MaxStart == 2

----------------------------------------------------------------------------
(* Text primitives of the Rust standard library, as the parser uses them.  *)

RECURSIVE SplitWs(_, _, _)
SplitWs(s, tok, acc) ==
    IF s = <<>> THEN (IF tok = <<>> THEN acc ELSE Append(acc, tok))
    ELSE IF Head(s) = " "
         THEN SplitWs(Tail(s), <<>>, IF tok = <<>> THEN acc ELSE Append(acc, tok))
         ELSE SplitWs(Tail(s), Append(tok, Head(s)), acc)

\* str::split_whitespace: the non-empty maximal runs of non-whitespace
split_whitespace(s) == SplitWs(s, <<>>, <<>>)

RECURSIVE SplitOn(_, _, _, _)
SplitOn(s, sep, part, acc) ==
    IF s = <<>> THEN Append(acc, part)
    ELSE IF Head(s) = sep
         THEN SplitOn(Tail(s), sep, <<>>, Append(acc, part))
         ELSE SplitOn(Tail(s), sep, Append(part, Head(s)), acc)

\* str::split on a one-character pattern: empty parts are kept
split(s, sep) == SplitOn(s, sep, <<>>, <<>>)

\* str::starts_with
starts_with(s, prefix) ==
    Len(s) >= Len(prefix) /\ SubSeq(s, 1, Len(prefix)) = prefix

VmFlagsPrefix == <<"V", "m", "F", "l", "a", "g", "s">>

LowerDigits == <<"0", "1", "2", "3", "4", "5", "6", "7", "8", "9",
                 "a", "b", "c", "d", "e", "f">>
UpperDigits == <<"0", "1", "2", "3", "4", "5", "6", "7", "8", "9",
                 "A", "B", "C", "D", "E", "F">>

\* char::to_digit: the digit's value, or -1 when c is no digit of the radix
to_digit(c, radix) ==
    LET hit == {k \in 1..radix : LowerDigits[k] = c \/ UpperDigits[k] = c}
    IN IF hit = {} THEN -1 ELSE (CHOOSE k \in hit : TRUE) - 1

RECURSIVE Accumulate(_, _, _)
Accumulate(s, radix, acc) ==
    IF s = <<>> THEN [ok |-> TRUE, val |-> acc, err |-> ""]
    ELSE IF to_digit(Head(s), radix) < 0
         THEN [ok |-> FALSE, val |-> 0, err |-> "invalid digit found in string"]
         ELSE Accumulate(Tail(s), radix, acc * radix + to_digit(Head(s), radix))

\* u64::from_str_radix: an empty string and a lone sign are errors, a leading
\* "+" is accepted, every other character must be a digit of the radix
from_str_radix(s, radix) ==
    IF s = <<>>
    THEN [ok |-> FALSE, val |-> 0, err |-> "cannot parse integer from empty string"]
    ELSE IF s = <<"+">> \/ s = <<"-">>
    THEN [ok |-> FALSE, val |-> 0, err |-> "invalid digit found in string"]
    ELSE IF Head(s) = "+" THEN Accumulate(Tail(s), radix, 0)
    ELSE Accumulate(s, radix, 0)

----------------------------------------------------------------------------
(* Map::parse_from_line_iterator.                                          *)

\* the closure get_line: the next line, "" at the end of the input for the
\* first line of a record, an error at the end of the input otherwise
get_line(ls, p, first) ==
    IF p >= Len(ls)
    THEN IF first THEN [ok |-> TRUE, line |-> <<>>, pos |-> p]
                  ELSE [ok |-> FALSE, line |-> <<>>, pos |-> p]
    ELSE [ok |-> TRUE, line |-> ls[p + 1], pos |-> p + 1]

\* the closure get_number without its panic: a line of fewer than two tokens
\* counts 0, a second token that is not a decimal number decodes to 0
get_number_lenient(s) ==
    LET parts == split_whitespace(s)
    IN IF Len(parts) < 2 THEN [panic |-> FALSE, val |-> 0]
       ELSE [panic |-> FALSE, val |-> from_str_radix(parts[2], 10).val]

\* the closure get_number: a line of fewer than two tokens counts 0, the
\* second token is parsed as u64 and .expect() panics when that fails
get_number(s) ==
    LET parts == split_whitespace(s)
    IN IF Len(parts) < 2 THEN [panic |-> FALSE, val |-> 0]
       ELSE LET r == from_str_radix(parts[2], 10)
            IN [panic |-> ~r.ok, val |-> r.val]

\* the closure get_hex: the error is returned, not raised
get_hex(s) == from_str_radix(s, 16)

items_of(line) == split_whitespace(line)
bounds_of(line) == split(items_of(line)[1], "-")
devices_of(line) == split(items_of(line)[4], ":")

\* the three checks of the first line, in the order of the code
HeaderError(line) ==
    IF Len(items_of(line)) < 5
    THEN <<"Found strange first line: ", line>>
    ELSE IF Len(bounds_of(line)) # 2
    THEN <<"Found bad bounds: ", items_of(line)[1]>>
    ELSE IF Len(devices_of(line)) # 2
    THEN <<"Found bad devices: ", items_of(line)[4]>>
    ELSE <<>>

RECURSIVE CollectLoop(_, _, _)
\* the loop that fills further_lines up to the first line starting "VmFlags"
CollectLoop(ls, p, acc) ==
    LET g == get_line(ls, p, FALSE)
    IN IF ~g.ok THEN [ok |-> FALSE, further_lines |-> acc, pos |-> g.pos]
       ELSE IF starts_with(g.line, VmFlagsPrefix)
            THEN [ok |-> TRUE, further_lines |-> Append(acc, g.line), pos |-> g.pos]
            ELSE CollectLoop(ls, g.pos, Append(acc, g.line))

MinLines == 22
KeyLines == 23

RECURSIVE NameLoop(_, _, _)
NameLoop(items, k, name) ==
    IF k > Len(items) THEN name
    ELSE NameLoop(items, k + 1, (name \o items[k]) \o <<" ">>)

\* for i in 5..items.len(): each token is pushed, then one space
name_of(items) == NameLoop(items, 6, <<>>)

\* the protection key taken whenever a 22nd line precedes the last one
protection_key_atleast(fl) ==
    IF Len(fl) >= KeyLines THEN get_number(fl[22]) ELSE [panic |-> FALSE, val |-> 0]

\* protection_key: further_lines[21] when exactly 23 lines were collected
protection_key_of(fl) ==
    IF Len(fl) = KeyLines THEN get_number(fl[22]) ELSE [panic |-> FALSE, val |-> 0]

\* the first error among the four get_hex(..)? of the struct expression,
\* which are evaluated in field order and before every get_number
HexError(line) ==
    LET b == bounds_of(line)
        d == devices_of(line)
    IN IF ~get_hex(b[1]).ok THEN get_hex(b[1]).err
       ELSE IF ~get_hex(b[2]).ok THEN get_hex(b[2]).err
       ELSE IF ~get_hex(d[1]).ok THEN get_hex(d[1]).err
       ELSE IF ~get_hex(d[2]).ok THEN get_hex(d[2]).err
       ELSE ""

\* whether one of the get_number calls of the struct expression panics
NumberPanics(fl) ==
    \/ \E k \in 1..21 : get_number(fl[k]).panic
    \/ protection_key_of(fl).panic

\* the struct expression Map { .. } once nothing in it has failed
MapOf(line, fl) ==
    LET items == items_of(line)
        b == bounds_of(line)
        d == devices_of(line)
    IN [start |-> get_hex(b[1]).val,
        end |-> get_hex(b[2]).val,
        flags |-> items[2],
        hex |-> items[3],
        device_major |-> get_hex(d[1]).val,
        device_minor |-> get_hex(d[2]).val,
        number |-> items[5],
        name |-> name_of(items),
        size |-> get_number(fl[1]).val,
        kernel_page_size |-> get_number(fl[2]).val,
        mmu_page_size |-> get_number(fl[3]).val,
        rss |-> get_number(fl[4]).val,
        pss |-> get_number(fl[5]).val,
        shared_clean |-> get_number(fl[6]).val,
        shared_dirty |-> get_number(fl[7]).val,
        private_clean |-> get_number(fl[8]).val,
        private_dirty |-> get_number(fl[9]).val,
        referenced |-> get_number(fl[10]).val,
        anonymous |-> get_number(fl[11]).val,
        lazy_free |-> get_number(fl[12]).val,
        anon_huge_pages |-> get_number(fl[13]).val,
        shmem_pmd_mapped |-> get_number(fl[14]).val,
        file_pmd_mapped |-> get_number(fl[15]).val,
        shared_huge_tlb |-> get_number(fl[16]).val,
        private_huge_tlb |-> get_number(fl[17]).val,
        swap |-> get_number(fl[18]).val,
        swap_pss |-> get_number(fl[19]).val,
        locked |-> get_number(fl[20]).val,
        thp_eligible |-> get_number(fl[21]).val # 0,
        protection_key |-> protection_key_of(fl).val,
        vmflags |-> fl[Len(fl)]]

----------------------------------------------------------------------------
(* Maps::get_maps: the loop around parse_from_line_iterator.  One call of  *)
(* the parser is three steps (first line, further lines, struct), each     *)
(* followed at once by what get_maps does with a result the call returns.  *)

Running == [tag |-> "Running"]

\* Ok(mm) with mm.is_none(): return Ok(res)
OnNone(res) == [tag |-> "Ok", maps |-> res]

\* Err(e): return Err(format!("Could not parse map: {}", e))
OnErr(e) == [tag |-> "Err", msg |-> <<"Could not parse map: ">> \o e]

\* the call returns Err(e) and get_maps returns
ReturnErr(e) ==
    /\ m' = [tag |-> "Err", e |-> e]
    /\ ret' = OnErr(e)
    /\ pc' = "done"
    /\ UNCHANGED maps

\* let first_line = get_line(lines, true)?; if first_line.is_empty() ..
FirstLineNone ==
    /\ pc = "call"
    /\ LET g == get_line(lines, pos, TRUE)
       IN /\ g.line = <<>>
          /\ pos' = g.pos
          /\ first_line' = g.line
    /\ entry' = pos
    /\ further_lines' = <<>>
    /\ m' = [tag |-> "None", e |-> <<>>]
    /\ ret' = OnNone(maps)
    /\ pc' = "done"
    /\ UNCHANGED <<lines, maps>>
    /\ UNCHANGED diffVars

\* .. items.len() < 5, bounds.len() != 2, devices.len() != 2
FirstLineErr ==
    /\ pc = "call"
    /\ LET g == get_line(lines, pos, TRUE)
       IN /\ g.line # <<>>
          /\ HeaderError(g.line) # <<>>
          /\ pos' = g.pos
          /\ first_line' = g.line
          /\ ReturnErr(HeaderError(g.line))
    /\ entry' = pos
    /\ further_lines' = <<>>
    /\ UNCHANGED lines
    /\ UNCHANGED diffVars

FirstLineOk ==
    /\ pc = "call"
    /\ LET g == get_line(lines, pos, TRUE)
       IN /\ g.line # <<>>
          /\ HeaderError(g.line) = <<>>
          /\ pos' = g.pos
          /\ first_line' = g.line
    /\ entry' = pos
    /\ further_lines' = <<>>
    /\ pc' = "collect"
    /\ UNCHANGED <<lines, maps, m, ret>>
    /\ UNCHANGED diffVars

\* loop { further_lines.push(get_line(lines, false)?); .. }
CollectOk ==
    /\ pc = "collect"
    /\ LET c == CollectLoop(lines, pos, <<>>)
       IN /\ c.ok
          /\ pos' = c.pos
          /\ further_lines' = c.further_lines
    /\ pc' = "build"
    /\ UNCHANGED <<lines, entry, first_line, maps, m, ret>>
    /\ UNCHANGED diffVars

CollectErr ==
    /\ pc = "collect"
    /\ LET c == CollectLoop(lines, pos, <<>>)
       IN /\ ~c.ok
          /\ pos' = c.pos
          /\ further_lines' = c.further_lines
    /\ ReturnErr(<<"Expecting more lines!">>)
    /\ UNCHANGED <<lines, entry, first_line>>
    /\ UNCHANGED diffVars

\* if further_lines.len() < 22 { return Err(..) }
BuildTooFew ==
    /\ pc = "build"
    /\ Len(further_lines) < MinLines
    /\ ReturnErr(<<"Expected at least 23 lines for entry.">>)
    /\ UNCHANGED <<lines, pos, entry, first_line, further_lines>>
    /\ UNCHANGED diffVars

\* get_hex(..)? fails: Err(e.to_string()) is returned
BuildHexErr ==
    /\ pc = "build"
    /\ Len(further_lines) >= MinLines
    /\ HexError(first_line) # ""
    /\ ReturnErr(<<HexError(first_line)>>)
    /\ UNCHANGED <<lines, pos, entry, first_line, further_lines>>
    /\ UNCHANGED diffVars

\* .expect(..) of get_number panics: the process is aborted
BuildPanic ==
    /\ pc = "build"
    /\ Len(further_lines) >= MinLines
    /\ HexError(first_line) = ""
    /\ NumberPanics(further_lines)
    /\ pc' = "panicked"
    /\ UNCHANGED <<lines, pos, entry, first_line, further_lines, maps, m, ret>>
    /\ UNCHANGED diffVars

\* Ok(Some(Map { .. })); res.maps.push(mm.unwrap())
BuildOk ==
    /\ pc = "build"
    /\ Len(further_lines) >= MinLines
    /\ HexError(first_line) = ""
    /\ ~NumberPanics(further_lines)
    /\ m' = [tag |-> "Some", e |-> <<>>]
    /\ maps' = Append(maps, MapOf(first_line, further_lines))
    /\ pc' = "call"
    /\ UNCHANGED <<lines, pos, entry, first_line, further_lines, ret>>
    /\ UNCHANGED diffVars

----------------------------------------------------------------------------
(* The input texts explored: up to MaxBlocks blocks, each a first line and *)
(* attribute lines "A: <k> kB" that carry their own position k as value,   *)
(* closed by a VmFlags line; up to MaxCut lines are cut off the end.       *)

Dec(n) ==
    IF n < 10 THEN <<LowerDigits[n + 1]>>
    ELSE <<LowerDigits[(n \div 10) + 1], LowerDigits[(n % 10) + 1]>>

HeaderKinds ==
    {"k5", "k6", "k7", "few", "nodash", "badstart", "emptyend", "nocolon",
     "baddev", "blank", "space"}

\* the first line of block b: start 16b, end 16b + 15, device 8:1
HeaderLine(b, h) ==
    LET d == LowerDigits[b + 1]
        range == <<d, "0", "-", d, "f">>
        rest == <<" ", "r", "w", " ", "0", " ", "8", ":", "1", " ", "5">>
    IN CASE h = "k5" -> range \o rest
         [] h = "k6" -> range \o rest \o <<" ", "/", "x">>
         [] h = "k7" -> range \o rest \o <<" ", "/", "x", " ", " ", "y">>
         [] h = "few" -> range \o <<" ", "r", "w", " ", "0">>
         [] h = "nodash" -> <<d, "0">> \o rest
         [] h = "badstart" -> <<"g", "0", "-", d, "f">> \o rest
         [] h = "emptyend" -> <<d, "0", "-">> \o rest
         [] h = "nocolon" -> range \o <<" ", "r", "w", " ", "0", " ", "8", "1", " ", "5">>
         [] h = "baddev" -> range \o <<" ", "r", "w", " ", "0", " ", "8", ":", "z", " ", "5">>
         [] h = "blank" -> <<>>
         [] h = "space" -> <<" ">>

\* n attribute lines before the VmFlags line; line `bad` (if any) has a
\* second token that is no decimal number, line `bare` (if any) one token
StdBody == [n |-> 21, bad |-> 0, bare |-> 0]
BodyKinds ==
    {StdBody,
     [n |-> 22, bad |-> 0, bare |-> 0],
     [n |-> 23, bad |-> 0, bare |-> 0],
     [n |-> 20, bad |-> 0, bare |-> 0],
     [n |-> 22, bad |-> 22, bare |-> 0],
     [n |-> 23, bad |-> 22, bare |-> 0],
     [n |-> 21, bad |-> 4, bare |-> 0],
     [n |-> 22, bad |-> 0, bare |-> 22]}

AttrLine(k, body) ==
    IF k = body.bad THEN <<"A", ":", " ", "a", " ", "k", "B">>
    ELSE IF k = body.bare THEN <<"A", ":">>
    ELSE <<"A", ":", " ">> \o Dec(k) \o <<" ", "k", "B">>

TermLine == VmFlagsPrefix \o <<":", " ", "r", "d">>

Shapes ==
    {[h |-> h, body |-> StdBody] : h \in HeaderKinds}
    \cup {[h |-> "k6", body |-> bd] : bd \in BodyKinds}
    \cup {[h |-> "badstart", body |-> [n |-> 21, bad |-> 4, bare |-> 0]]}

Block(b, shape) ==
    IF shape.h = "blank" THEN <<HeaderLine(b, "blank")>>
    ELSE <<HeaderLine(b, shape.h)>>
         \o [k \in 1..shape.body.n |-> AttrLine(k, shape.body)]
         \o <<TermLine>>

RECURSIVE Text(_, _)
Text(shapes, b) ==
    IF b > Len(shapes) THEN <<>>
    ELSE Block(b, shapes[b]) \o Text(shapes, b + 1)

Cuts(text) ==
    {SubSeq(text, 1, Len(text) - cut) : cut \in {c \in 0..MaxCut : c <= Len(text)}}

Inputs ==
    UNION {Cuts(Text(sh, 1)) : sh \in UNION {[1..n -> Shapes] : n \in 0..MaxBlocks}}

DiffIdle ==
    /\ cur = <<>> /\ prev = <<>> /\ curPid = 0 /\ prevPid = 0
    /\ i = 0 /\ j = 0 /\ out = <<>> /\ dpc = "idle"

\* get_maps up to its loop: res.maps is empty, nothing is read yet
InitParse ==
    /\ lines \in Inputs
    /\ pos = 0
    /\ entry = 0
    /\ first_line = <<>>
    /\ further_lines = <<>>
    /\ maps = <<>>
    /\ m = [tag |-> "Init", e |-> <<>>]
    /\ ret = Running
    /\ pc = "call"
    /\ DiffIdle

NextParse ==
    \/ FirstLineNone
    \/ FirstLineErr
    \/ FirstLineOk
    \/ CollectOk
    \/ CollectErr
    \/ BuildTooFew
    \/ BuildHexErr
    \/ BuildPanic
    \/ BuildOk

SpecParse == InitParse /\ [][NextParse]_vars

----------------------------------------------------------------------------
(* Maps::print_diff.  Of a Map it reads start, end, size, rss and name     *)
(* only, so the snapshots handed to it carry these fields.  Every println! *)
(* appends one entry to out.                                               *)

\* if j < self.maps.len()
TailPrevGuard(jj, self_maps, prev_maps) == jj < Len(self_maps)

\* an entry is printed for every record, whatever its name
NamePrintedAlways(rec) == TRUE

\* if !m.name.is_empty()
NamePrinted(rec) == rec.name # <<>>

\* the annotation attached whether or not the ends differ
enddiff_always(rec, old) == <<old.end>>

\* let enddiff = if m.end != p.end { format!(" (was {})", p.end) } else { "" }
enddiff(rec, old) == IF rec.end # old.end THEN <<old.end>> ELSE <<>>

\* let sizediff = if m.size != p.size { .. p.size } else { "" }
sizediff(rec, old) == IF rec.size # old.size THEN <<old.size>> ELSE <<>>

\* the rss annotation showing the new value in place of the old one
rssdiff_new(rec, old) == IF rec.rss # old.rss THEN <<rec.rss>> ELSE <<>>

\* let rssdiff = if m.rss != p.rss { .. p.rss } else { "" }
rssdiff(rec, old) == IF rec.rss # old.rss THEN <<old.rss>> ELSE <<>>

\* if !enddiff.is_empty() || !sizediff.is_empty() || !rssdiff.is_empty()
ChangedPrinted(rec, old) ==
    enddiff(rec, old) # <<>> \/ sizediff(rec, old) # <<>> \/ rssdiff(rec, old) # <<>>

NoDiff == <<>>

\* println!("\nDifferences in maps of pid {} between {} and {}:", ..)
HeaderEntry ==
    [kind |-> "HEADER", start |-> 0, end |-> 0, size |-> 0, rss |-> 0,
     name |-> <<>>, enddiff |-> NoDiff, sizediff |-> NoDiff, rssdiff |-> NoDiff]

\* println!("MMAP: {:x}-{:x} size={} rss={} {}", ..)
MmapEntry(rec) ==
    [kind |-> "MMAP", start |-> rec.start, end |-> rec.end, size |-> rec.size,
     rss |-> rec.rss, name |-> rec.name,
     enddiff |-> NoDiff, sizediff |-> NoDiff, rssdiff |-> NoDiff]

\* println!("DROP: {:x}-{:x} size={} rss={} {}", ..)
DropEntry(old) ==
    [kind |-> "DROP", start |-> old.start, end |-> old.end, size |-> old.size,
     rss |-> old.rss, name |-> old.name,
     enddiff |-> NoDiff, sizediff |-> NoDiff, rssdiff |-> NoDiff]

\* println!("CHANGED: {:x}-{:x}{} size={}{} rss={}{} {}", ..)
ChangedEntry(rec, old) ==
    [kind |-> "CHANGED", start |-> rec.start, end |-> rec.end, size |-> rec.size,
     rss |-> rec.rss, name |-> rec.name,
     enddiff |-> enddiff(rec, old), sizediff |-> sizediff(rec, old),
     rssdiff |-> rssdiff(rec, old)]

\* assert_eq!(self.pid, prev.pid) holds; the heading is printed
DiffStart ==
    /\ dpc = "start"
    /\ curPid = prevPid
    /\ out' = Append(out, HeaderEntry)
    /\ dpc' = "merge"
    /\ UNCHANGED <<cur, prev, curPid, prevPid, i, j>>
    /\ UNCHANGED parseVars

\* assert_eq!(self.pid, prev.pid) panics
DiffPidMismatch ==
    /\ dpc = "start"
    /\ curPid # prevPid
    /\ dpc' = "panicked"
    /\ UNCHANGED <<cur, prev, curPid, prevPid, i, j, out>>
    /\ UNCHANGED parseVars

\* while i < self.maps.len() && j < prev.maps.len(): m.start < p.start
MergeAppeared ==
    /\ dpc = "merge"
    /\ i < Len(cur) /\ j < Len(prev)
    /\ cur[i + 1].start < prev[j + 1].start
    /\ out' = IF NamePrinted(cur[i + 1]) THEN Append(out, MmapEntry(cur[i + 1])) ELSE out
    /\ i' = i + 1
    /\ UNCHANGED <<cur, prev, curPid, prevPid, j, dpc>>
    /\ UNCHANGED parseVars

\* .. m.start > p.start
MergeDisappeared ==
    /\ dpc = "merge"
    /\ i < Len(cur) /\ j < Len(prev)
    /\ ~(cur[i + 1].start < prev[j + 1].start)
    /\ cur[i + 1].start > prev[j + 1].start
    /\ out' = IF NamePrinted(prev[j + 1]) THEN Append(out, DropEntry(prev[j + 1])) ELSE out
    /\ j' = j + 1
    /\ UNCHANGED <<cur, prev, curPid, prevPid, i, dpc>>
    /\ UNCHANGED parseVars

\* .. the same start: "Same map, see if there was a diff"
MergeSame ==
    /\ dpc = "merge"
    /\ i < Len(cur) /\ j < Len(prev)
    /\ ~(cur[i + 1].start < prev[j + 1].start)
    /\ ~(cur[i + 1].start > prev[j + 1].start)
    /\ out' = IF ChangedPrinted(cur[i + 1], prev[j + 1])
              THEN Append(out, ChangedEntry(cur[i + 1], prev[j + 1]))
              ELSE out
    /\ i' = i + 1
    /\ j' = j + 1
    /\ UNCHANGED <<cur, prev, curPid, prevPid, dpc>>
    /\ UNCHANGED parseVars

\* the while condition fails
MergeExit ==
    /\ dpc = "merge"
    /\ ~(i < Len(cur) /\ j < Len(prev))
    /\ dpc' = "tail_cur"
    /\ UNCHANGED <<cur, prev, curPid, prevPid, i, j, out>>
    /\ UNCHANGED parseVars

\* if i < self.maps.len() { while i < self.maps.len() { .. } }
TailCurStep ==
    /\ dpc = "tail_cur"
    /\ i < Len(cur)
    /\ out' = IF NamePrinted(cur[i + 1]) THEN Append(out, MmapEntry(cur[i + 1])) ELSE out
    /\ i' = i + 1
    /\ UNCHANGED <<cur, prev, curPid, prevPid, j, dpc>>
    /\ UNCHANGED parseVars

TailCurExit ==
    /\ dpc = "tail_cur"
    /\ ~(i < Len(cur))
    /\ dpc' = "guard_prev"
    /\ UNCHANGED <<cur, prev, curPid, prevPid, i, j, out>>
    /\ UNCHANGED parseVars

\* if j < self.maps.len() { .. }
TailPrevEnter ==
    /\ dpc = "guard_prev"
    /\ TailPrevGuard(j, cur, prev)
    /\ dpc' = "tail_prev"
    /\ UNCHANGED <<cur, prev, curPid, prevPid, i, j, out>>
    /\ UNCHANGED parseVars

TailPrevSkip ==
    /\ dpc = "guard_prev"
    /\ ~TailPrevGuard(j, cur, prev)
    /\ dpc' = "done"
    /\ UNCHANGED <<cur, prev, curPid, prevPid, i, j, out>>
    /\ UNCHANGED parseVars

\* while j < prev.maps.len() { .. }
TailPrevStep ==
    /\ dpc = "tail_prev"
    /\ j < Len(prev)
    /\ out' = IF NamePrinted(prev[j + 1]) THEN Append(out, DropEntry(prev[j + 1])) ELSE out
    /\ j' = j + 1
    /\ UNCHANGED <<cur, prev, curPid, prevPid, i, dpc>>
    /\ UNCHANGED parseVars

TailPrevExit ==
    /\ dpc = "tail_prev"
    /\ ~(j < Len(prev))
    /\ dpc' = "done"
    /\ UNCHANGED <<cur, prev, curPid, prevPid, i, j, out>>
    /\ UNCHANGED parseVars

----------------------------------------------------------------------------
(* The snapshots explored: records at some of the starts 1..MaxStart, in   *)
(* ascending order of start, as get_maps collects them from the kernel's   *)
(* address-ordered listing.  A previous record has end = start + 10,       *)
(* size 4, rss 100; a current record has each of the three either equal to *)
(* that or different, so all eight patterns of change occur.               *)

Names == {<<>>, <<"/", "x", " ">>}
Pids == {42, 43}

PrevShapes == {[de |-> 10, size |-> 4, rss |-> 100, name |-> nm] : nm \in Names}
CurShapes ==
    {[de |-> de, size |-> sz, rss |-> rs, name |-> nm] :
        de \in {10, 20}, sz \in {4, 8}, rs \in {100, 150}, nm \in Names}

RECURSIVE Ascending(_)
Ascending(S) ==
    IF S = {} THEN <<>>
    ELSE LET x == CHOOSE y \in S : \A z \in S : y <= z
         IN <<x>> \o Ascending(S \ {x})

\* the snapshots whose starts are the sequence `starts`
SnapshotsAt(starts, shapes) ==
    {[k \in 1..Len(starts) |->
         [start |-> starts[k], end |-> starts[k] + f[k].de,
          size |-> f[k].size, rss |-> f[k].rss, name |-> f[k].name]] :
       f \in [1..Len(starts) -> shapes]}

Snapshots(shapes) ==
    UNION {SnapshotsAt(Ascending(S), shapes) : S \in SUBSET (1..MaxStart)}

ParseIdle ==
    /\ lines = <<>> /\ pos = 0 /\ entry = 0 /\ first_line = <<>>
    /\ further_lines = <<>> /\ maps = <<>> /\ m = [tag |-> "Init", e |-> <<>>]
    /\ ret = Running /\ pc = "idle"

\* m.print_diff(&prev_maps) is called
InitDiff ==
    /\ cur \in Snapshots(CurShapes)
    /\ prev \in Snapshots(PrevShapes)
    /\ curPid = 42
    /\ prevPid \in Pids
    /\ i = 0
    /\ j = 0
    /\ out = <<>>
    /\ dpc = "start"
    /\ ParseIdle

NextDiff ==
    \/ DiffStart
    \/ DiffPidMismatch
    \/ MergeAppeared
    \/ MergeDisappeared
    \/ MergeSame
    \/ MergeExit
    \/ TailCurStep
    \/ TailCurExit
    \/ TailPrevEnter
    \/ TailPrevSkip
    \/ TailPrevStep
    \/ TailPrevExit

SpecDiff == InitDiff /\ [][NextDiff]_vars

----------------------------------------------------------------------------
(* Properties of print_diff, checked under SpecDiff.                       *)

StartsOf(snapshot) == {snapshot[k].start : k \in 1..Len(snapshot)}
Entries == {out[k] : k \in 1..Len(out)}
Report == SelectSeq(out, LAMBDA e : e.kind # "HEADER")
EntriesAt(kind, start) == {k \in 1..Len(out) : out[k].kind = kind /\ out[k].start = start}
SameMeasures(rec, old) ==
    rec.end = old.end /\ rec.size = old.size /\ rec.rss = old.rss

\* C1: once print_diff has returned, every start address held by the current
\* snapshot only has an MMAP entry and every start address held by the
\* previous snapshot only has a DROP entry (stated for the records with a
\* non-empty name, the only ones the report ever prints an MMAP or DROP for).
C1_EveryOneSidedStartReported ==
    dpc = "done" =>
        /\ \A k \in 1..Len(cur) :
              (cur[k].start \notin StartsOf(prev) /\ cur[k].name # <<>>)
                  => EntriesAt("MMAP", cur[k].start) # {}
        /\ \A k \in 1..Len(prev) :
              (prev[k].start \notin StartsOf(cur) /\ prev[k].name # <<>>)
                  => EntriesAt("DROP", prev[k].start) # {}

\* C2: once print_diff has returned, both cursors are at the end (i = n and
\* j = m), every named record the merge loop left in the current sequence has
\* an MMAP entry and every named record it left in the previous sequence (the
\* records above every current start) has a DROP entry.
C2_TailsDrained ==
    dpc = "done" =>
        /\ i = Len(cur)
        /\ j = Len(prev)
        /\ \A k \in 1..Len(cur) :
              ((\A s \in StartsOf(prev) : s < cur[k].start) /\ cur[k].name # <<>>)
                  => EntriesAt("MMAP", cur[k].start) # {}
        /\ \A k \in 1..Len(prev) :
              ((\A s \in StartsOf(cur) : s < prev[k].start) /\ prev[k].name # <<>>)
                  => EntriesAt("DROP", prev[k].start) # {}

\* C3: a start address present in both snapshots with equal end, size and rss
\* never has a report entry of any kind, and the diff of a snapshot against an
\* identical copy of itself ends with an empty report.
C3_UnchangedSilent ==
    /\ \A a \in 1..Len(cur) : \A b \in 1..Len(prev) :
          (cur[a].start = prev[b].start /\ SameMeasures(cur[a], prev[b]))
              => \A e \in Entries : e.kind = "HEADER" \/ e.start # cur[a].start
    /\ (dpc = "done" /\ cur = prev) => Report = <<>>

C3_Witness ==
    /\ dpc = "done"
    /\ cur = prev
    /\ Len(cur) >= 2
    /\ Report = <<>>
    /\ i = Len(cur) /\ j = Len(prev)

\* C4: once print_diff has returned, a start address present in both snapshots
\* has a CHANGED entry if and only if end, size or rss differs between its two
\* records; there is then exactly one, it shows the new end, size and rss, and
\* it carries the old value of exactly the attributes that differ and no
\* annotation for an attribute that is equal.  No other start has a CHANGED
\* entry.
C4_ChangedExact ==
    dpc = "done" =>
        /\ \A a \in 1..Len(cur) : \A b \in 1..Len(prev) :
              cur[a].start = prev[b].start =>
                  /\ Cardinality(EntriesAt("CHANGED", cur[a].start))
                        = (IF SameMeasures(cur[a], prev[b]) THEN 0 ELSE 1)
                  /\ \A k \in EntriesAt("CHANGED", cur[a].start) :
                        /\ out[k].end = cur[a].end
                        /\ out[k].size = cur[a].size
                        /\ out[k].rss = cur[a].rss
                        /\ out[k].enddiff =
                              (IF cur[a].end = prev[b].end THEN <<>> ELSE <<prev[b].end>>)
                        /\ out[k].sizediff =
                              (IF cur[a].size = prev[b].size THEN <<>> ELSE <<prev[b].size>>)
                        /\ out[k].rssdiff =
                              (IF cur[a].rss = prev[b].rss THEN <<>> ELSE <<prev[b].rss>>)
        /\ \A e \in Entries :
              e.kind = "CHANGED" => e.start \in StartsOf(cur) \cap StartsOf(prev)

\* rss 100 -> 150 and all else identical: one annotation, rss: old 100, new 150
C4_Witness ==
    /\ dpc = "done"
    /\ \E e \in Entries :
          /\ e.kind = "CHANGED"
          /\ e.rss = 150 /\ e.rssdiff = <<100>>
          /\ e.enddiff = <<>> /\ e.sizediff = <<>>

\* C5: no MMAP or DROP entry is ever printed for a record whose name is empty,
\* and once print_diff has returned, a current record with an empty name
\* whose start is in both snapshots with a differing end, size or rss has
\* its CHANGED entry.
C5_AnonymousOnlyChanged ==
    /\ \A e \in Entries : e.kind \in {"MMAP", "DROP"} => e.name # <<>>
    /\ dpc = "done" =>
          \A a \in 1..Len(cur) : \A b \in 1..Len(prev) :
              (/\ cur[a].start = prev[b].start
               /\ cur[a].name = <<>>
               /\ ~SameMeasures(cur[a], prev[b]))
                  => \E k \in EntriesAt("CHANGED", cur[a].start) : out[k].name = <<>>

C5_Witness ==
    /\ dpc = "done"
    /\ \E e \in Entries : e.kind = "CHANGED" /\ e.name = <<>>
    /\ \E k \in 1..Len(cur) :
          /\ cur[k].name = <<>>
          /\ cur[k].start \notin StartsOf(prev)
          /\ k <= i
          /\ EntriesAt("MMAP", cur[k].start) = {}

----------------------------------------------------------------------------
(* Properties of the parser, checked under SpecParse.                      *)

Last(s) == s[Len(s)]
Returned == pc = "done"
TerminatorsIn(from, to) ==
    {k \in from..to : starts_with(lines[k], VmFlagsPrefix)}

\* When a call of the parser fails, get_maps returns that error, wrapped, and
\* nothing else (no records of earlier blocks); an input that ends inside a
\* block, with no VmFlags line after the block's first line, is such an error;
\* and a Snapshot is returned only after a call that reported no record, and
\* then holds every record pushed: one per VmFlags-terminated block read by
\* the earlier calls.
ErrorDiscardsAll ==
    /\ m.tag = "Err" =>
          /\ Returned
          /\ ret.tag = "Err"
          /\ DOMAIN ret = {"tag", "msg"}
          /\ ret.msg = <<"Could not parse map: ">> \o m.e
    /\ (/\ Returned
        /\ first_line # <<>>
        /\ HeaderError(first_line) = <<>>
        /\ TerminatorsIn(entry + 2, Len(lines)) = {})
          => (ret.tag = "Err" /\ ret.msg = <<"Could not parse map: ", "Expecting more lines!">>)
    /\ (Returned /\ ret.tag = "Ok") =>
          /\ m.tag = "None"
          /\ ret.maps = maps
          /\ Len(ret.maps) = Cardinality(TerminatorsIn(1, entry))

\* a first block was parsed into a record, the input ends inside the second,
\* and the error alone is returned
ErrorDiscardsAllReached ==
    /\ Returned
    /\ ret.tag = "Err"
    /\ m.e = <<"Expecting more lines!">>
    /\ Len(maps) >= 1
    /\ pos = Len(lines)

\* C6: snapshot parsing is all-or-nothing: a failed call makes get_maps return
\* the error and no Snapshot (an input that ends inside a block included),
\* and a Snapshot is returned only when every block up to the end of the
\* input was parsed: the Snapshot holds one record per VmFlags-terminated
\* block of the whole input.
C6_AllOrNothing ==
    /\ ErrorDiscardsAll
    /\ (Returned /\ ret.tag = "Ok") =>
          Len(ret.maps) = Cardinality(TerminatorsIn(1, Len(lines)))

\* the last call has returned a record, which get_maps has pushed
JustParsed == pc = "call" /\ m.tag = "Some"

\* the struct expression of the last call was reached and did not yield a record
DecodeReached ==
    /\ pc \in {"done", "panicked"}
    /\ first_line # <<>>
    /\ HeaderError(first_line) = <<>>
    /\ Len(further_lines) >= MinLines
    /\ starts_with(Last(further_lines), VmFlagsPrefix)

HexFails(line) ==
    \/ \E k \in 1..2 : ~from_str_radix(bounds_of(line)[k], 16).ok
    \/ \E k \in 1..2 : ~from_str_radix(devices_of(line)[k], 16).ok

DecodedLines(fl) == (1..21) \cup (IF Len(fl) = 23 THEN {22} ELSE {})

NumberFails(fl) ==
    \E k \in DecodedLines(fl) :
        /\ Len(split_whitespace(fl[k])) >= 2
        /\ ~from_str_radix(split_whitespace(fl[k])[2], 10).ok

\* C7 as stated: whenever the struct expression is reached with a header
\* component that is no hexadecimal number or with a decoded attribute line
\* whose second token is no number, the process is aborted and get_maps
\* returns nothing.
C7_EveryDecodeFailureAborts ==
    (DecodeReached /\ (HexFails(first_line) \/ NumberFails(further_lines)))
        => (pc = "panicked" /\ ret.tag = "Running")

\* C7 as amended: a header component that is no hexadecimal number is returned
\* as the parser's error and get_maps returns it wrapped; only when all four
\* header components decode does a decoded attribute line whose second token
\* is no number abort the process; nothing else aborts it; and no record is
\* built from a block with either kind of failure.
C7_HexErrReturnedNumberAborts ==
    /\ JustParsed => (~HexFails(first_line) /\ ~NumberFails(further_lines))
    /\ DecodeReached =>
          /\ HexFails(first_line) =>
                /\ pc = "done"
                /\ m.tag = "Err"
                /\ m.e \in {<<"invalid digit found in string">>,
                            <<"cannot parse integer from empty string">>}
                /\ ret.tag = "Err"
                /\ ret.msg = <<"Could not parse map: ">> \o m.e
          /\ (~HexFails(first_line) /\ NumberFails(further_lines)) =>
                (pc = "panicked" /\ ret.tag = "Running")
    /\ pc = "panicked" =>
          (DecodeReached /\ ~HexFails(first_line) /\ NumberFails(further_lines))

\* a bad start address and a bad Rss value in one block: the error is returned
C7_Witness ==
    /\ DecodeReached
    /\ HexFails(first_line)
    /\ NumberFails(further_lines)
    /\ pc = "done"
    /\ ret.tag = "Err"

\* C8: in the record just parsed from L collected lines (L >= 22),
\* protection_key is the value of the 22nd line when L = 23 (0 when that line
\* has a single token) and 0 for every other L, and vmflags is the text of
\* the last collected line.
C8_ProtectionKey ==
    JustParsed =>
        /\ Len(further_lines) >= 22
        /\ Last(maps).protection_key =
              (IF Len(further_lines) = 23
               THEN (IF Len(split_whitespace(further_lines[22])) < 2 THEN 0
                     ELSE from_str_radix(split_whitespace(further_lines[22])[2], 10).val)
               ELSE 0)
        /\ (/\ Len(further_lines) = 23
            /\ further_lines[22] = <<"A", ":", " ", "2", "2", " ", "k", "B">>)
              => Last(maps).protection_key = 22
        /\ Last(maps).vmflags = Last(further_lines)
        /\ Last(maps).vmflags = lines[pos]

C8_Witness ==
    /\ JustParsed
    /\ Len(further_lines) = 23
    /\ Last(maps).protection_key = 22
    /\ Len(maps) >= 2
    /\ maps[1].protection_key = 0

RECURSIVE JoinWithSpaces(_)
JoinWithSpaces(toks) ==
    IF toks = <<>> THEN <<>>
    ELSE IF Len(toks) = 1 THEN toks[1]
    ELSE toks[1] \o <<" ">> \o JoinWithSpaces(Tail(toks))

\* C9: in the record just parsed from a first line of k >= 5 tokens, the name
\* is the tokens after the fifth with one space between neighbours and none
\* before or after, and it is empty exactly when k = 5.
C9_NameJoined ==
    JustParsed =>
        LET toks == split_whitespace(first_line)
        IN /\ Len(toks) >= 5
           /\ Last(maps).name = JoinWithSpaces(SubSeq(toks, 6, Len(toks)))
           /\ (Last(maps).name = <<>>) <=> (Len(toks) = 5)

\* C10: a call reports "no record" only when the cursor was exhausted at its
\* entry, and then it has consumed nothing; so get_maps returns a Snapshot
\* only when no line of the input is left unread.
C10_NoneOnlyAtEnd ==
    /\ m.tag = "None" => (entry = Len(lines) /\ pos = entry)
    /\ (Returned /\ ret.tag = "Ok") => pos = Len(lines)

====
